---- MODULE Spec2Model ----
(***************************************************************************)
(* State-machine model of statsmodels.multivariate: MANOVA hypothesis      *)
(* testing, the multivariate test statistics and canonical correlation     *)
(* (manova.py) and principal-axis factor analysis with rotation dispatch   *)
(* (factor.py).                                                            *)
(*                                                                         *)
(* numpy arrays are records [isNone, shape, data]: shape is the tuple of   *)
(* dimensions and data the row-major buffer.  Python's None is the record  *)
(* with isNone = TRUE.  A formatted string  fmt % args  is the record      *)
(* [fmt, args].  A call's outcome is [kind, exc, msg, value] with kind     *)
(* "return" or "raise".                                                    *)
(***************************************************************************)
EXTENDS Integers, Sequences, FiniteSets, TLC

VARIABLES
    endog, exog, design_info,                  \* MANOVA: Model fields
    reg_coeffs, df_resid, inv_cov_, sscpr,     \* MANOVA: fitted artifacts
    m_call, m_ret,                             \* last MANOVA.test call and its outcome
    factor,                                    \* the Factor object (or None)
    results,                                   \* the FactorResults object (or None)
    f_call, f_ret,                             \* last Factor/FactorResults call and its outcome
    cancorr,                                   \* the Cancorr object (or None)
    c_call, c_ret                              \* last Cancorr / multivariate_stats call and its outcome

mvars == <<endog, exog, design_info, reg_coeffs, df_resid, inv_cov_, sscpr,
           m_call, m_ret>>
fvars == <<factor, results, f_call, f_ret>>
cvars == <<cancorr, c_call, c_ret>>
vars == <<endog, exog, design_info, reg_coeffs, df_resid, inv_cov_, sscpr,
          m_call, m_ret, factor, results, f_call, f_ret, cancorr, c_call, c_ret>>

(***************************************************************************)
(* Bounds                                                                  *)
(***************************************************************************)
MaxDim == 2        \* largest number of exog / endog columns of a MANOVA model
MaxHyp == 2        \* longest hypothesis list passed to MANOVA.test
RDen == 2        \* correlations of the Factor data are multiples of 1 / RDen
MaxIter == 3       \* largest n_max_iter passed to fit
Scale == 100       \* floating-point results are kept to a precision of 1 / Scale
MaxRank == 3       \* largest rank p, q passed to multivariate_stats and Cancorr
MaxDf == 10        \* largest residual degrees of freedom

(***************************************************************************)
(* Python / numpy values                                                   *)
(***************************************************************************)
None == [isNone |-> TRUE, shape |-> << >>, data |-> << >>]

Str(fmt, args) == [fmt |-> fmt, args |-> args]

NoMsg == Str("", << >>)

Return(v) == [kind |-> "return", exc |-> "", msg |-> NoMsg, value |-> v]

Raise(exc, msg) == [kind |-> "raise", exc |-> exc, msg |-> msg, value |-> << >>]

NoCall == [kind |-> "none", exc |-> "", msg |-> NoMsg, value |-> << >>]

Min(a, b) == IF a <= b THEN a ELSE b

\* np.array of the given shape filled with v
Full(shape, v) ==
    LET size == IF Len(shape) = 1 THEN shape[1] ELSE shape[1] * shape[2]
    IN  [isNone |-> FALSE, shape |-> shape, data |-> [i \in 1..size |-> v]]

\* np.zeros(shape)
np_zeros(shape) == Full(shape, 0)

\* np.eye(n)
np_eye(n) ==
    [isNone |-> FALSE, shape |-> <<n, n>>,
     data |-> [i \in 1..(n * n) |-> IF (i - 1) \div n = (i - 1) % n THEN 1 ELSE 0]]

\* A[start:stop, :] for a 2-d array A
RowSlice(A, start, stop) ==
    LET c == A.shape[2]
    IN  [isNone |-> FALSE, shape |-> <<stop - start, c>>,
         data |-> [i \in 1..((stop - start) * c) |-> A.data[start * c + i]]]

\* an array of the given shape and row-major data
Array(shape, data) == [isNone |-> FALSE, shape |-> shape, data |-> data]

\* s[::-1]
Reversed(s) == [i \in 1..Len(s) |-> s[Len(s) + 1 - i]]

\* entry (i, j), 0-based, of a 2-d array
At(A, i, j) == A.data[i * A.shape[2] + j + 1]

\* the statement  A[i] = v  for a scalar v: index i along axis 0, the whole
\* sub-array A[i] is filled with v; IndexError when i is out of bounds
SetItem0(A, i, v) ==
    IF i >= A.shape[1]
    THEN Raise("IndexError", Str("index %d is out of bounds for axis 0 with size %d",
                                 <<i, A.shape[1]>>))
    ELSE LET w == IF Len(A.shape) = 1 THEN 1 ELSE A.shape[2]
         IN  Return([A EXCEPT !.data =
                        [k \in 1..Len(A.data) |->
                            IF (k - 1) \div w = i THEN v ELSE A.data[k]]])

(***************************************************************************)
(* manova.py                                                               *)
(***************************************************************************)
\* an observation matrix: only its shape and identity matter to the model
Data(id, n, k) == [id |-> id, shape |-> <<n, k>>]

\* a matrix computed by the linear algebra kernel, kept as the expression
\* that produced it
Sym(expr, shape, x, y) == [expr |-> expr, shape |-> shape, x |-> x.id, y |-> y.id]

\* fit_manova(x, y): (params, df_resid, inv_cov, sscpr)
fit_manova(x, y) ==
    LET nobs    == y.shape[1]
        k_endog == y.shape[2]
        nobs1   == x.shape[1]
        k_exog  == x.shape[2]
    IN  IF nobs # nobs1
        THEN Raise("ValueError",
                   Str("x(n=%d) and y(n=%d) should have the same number of rows!",
                       <<nobs1, nobs>>))
        ELSE Return([params   |-> Sym("pinv(x).dot(y)", <<k_exog, k_endog>>, x, y),
                     df_resid |-> nobs - k_exog,
                     inv_cov  |-> Sym("inv(x.T.dot(x))", <<k_exog, k_exog>>, x, y),
                     sscpr    |-> Sym("y.T.dot(y) - t.T.dot(t)", <<k_endog, k_endog>>, x, y)])

\* L.dot(inv_cov).dot(L.T) has an exactly zero row and column when a row of
\* L is zero, and inv() of it raises LinAlgError
HasZeroRow(L) ==
    \E i \in 0..(L.shape[1] - 1) : \A j \in 0..(L.shape[2] - 1) : At(L, i, j) = 0

\* test_manova(results, contrast_L, transform_M): the statistics table of
\* L * params * M = 0, kept as the inputs multivariate_stats is computed from
test_manova(fit_output, contrast_L, transform_M) ==
    LET M == IF transform_M.isNone THEN np_eye(fit_output.params.shape[2])
             ELSE transform_M
        L == contrast_L
    IN  IF HasZeroRow(L)
        THEN Raise("LinAlgError", Str("Singular matrix", << >>))
        ELSE Return([params   |-> fit_output.params,
                     inv_cov  |-> fit_output.inv_cov,
                     sscpr    |-> fit_output.sscpr,
                     df_resid |-> fit_output.df_resid,
                     L        |-> L,
                     M        |-> M])

\* MANOVA.test, hypothesis is None and design_info is not None: one
\* hypothesis per term of design_info.term_name_slices
RECURSIVE TermHypothesis(_, _, _)
TermHypothesis(terms, k, hypothesis) ==
    IF k > Len(terms) THEN Return(hypothesis)
    ELSE LET key        == terms[k]
             L_contrast == RowSlice(np_eye(exog.shape[2]), key.start, key.stop)
         IN  TermHypothesis(terms, k + 1,
                 Append(hypothesis, [name |-> key.name, L |-> L_contrast, M |-> None]))

\* MANOVA.test, hypothesis is None and design_info is None: one hypothesis
\* per column of exog
RECURSIVE ColumnHypothesis(_, _)
ColumnHypothesis(i, hypothesis) ==
    IF i >= exog.shape[2] THEN Return(hypothesis)
    ELSE LET name == Str("x%d", <<i>>)
             L    == SetItem0(np_zeros(<<1, exog.shape[2]>>), i, 1)
         IN  IF L.kind = "raise" THEN L
             ELSE ColumnHypothesis(i + 1,
                      Append(hypothesis, [name |-> name, L |-> L.value, M |-> None]))

\* MANOVA.test: the hypothesis list that is tested
DeriveHypothesis(hypothesis) ==
    IF hypothesis.isNone
    THEN IF ~design_info.isNone
         THEN TermHypothesis(design_info.term_name_slices, 1, << >>)
         ELSE ColumnHypothesis(0, << >>)
    ELSE Return(hypothesis.list)

\* ValidateL with the row count of L compared in place of its column count
ValidateL_rows(L) ==
    IF Len(L.shape) # 2
    THEN Raise("ValueError", Str("Contrast matrix L must be a 2-d array!", << >>))
    ELSE IF L.shape[1] # exog.shape[2]
    THEN Raise("ValueError",
               Str("Contrast matrix L should have the same number of columns as exog! %d != %d",
                   <<L.shape[1], exog.shape[2]>>))
    ELSE Return(<< >>)

\* MANOVA.test: validation of the contrast matrix L
ValidateL(L) ==
    IF Len(L.shape) # 2
    THEN Raise("ValueError", Str("Contrast matrix L must be a 2-d array!", << >>))
    ELSE IF L.shape[2] # exog.shape[2]
    THEN Raise("ValueError",
               Str("Contrast matrix L should have the same number of columns as exog! %d != %d",
                   <<L.shape[2], exog.shape[2]>>))
    ELSE Return(<< >>)

\* MANOVA.test: validation of the transform matrix M
ValidateM(M) ==
    IF M.isNone THEN Return(<< >>)
    ELSE IF Len(M.shape) # 2
    THEN Raise("ValueError", Str("Transform matrix M must be a 2-d array!", << >>))
    ELSE IF M.shape[1] # endog.shape[2]
    THEN Raise("ValueError",
               Str("Transform matrix M should have the same number of rows as the number of columns of endog! %d != %d",
                   <<M.shape[1], exog.shape[2]>>))
    ELSE Return(<< >>)

\* MANOVAResults(results)
MANOVAResults(res) == [results |-> res]

\* TestLoop with each result inserted at the front of the list
RECURSIVE TestLoop_prepend(_, _, _)
TestLoop_prepend(hypothesis, k, res) ==
    IF k > Len(hypothesis) THEN Return(MANOVAResults(res))
    ELSE LET h  == hypothesis[k]
             vL == ValidateL(h.L)
             vM == ValidateM(h.M)
             fit_output == [params |-> reg_coeffs, df_resid |-> df_resid,
                            inv_cov |-> inv_cov_, sscpr |-> sscpr]
             manova_table == test_manova(fit_output, h.L, h.M)
         IN  IF vL.kind = "raise" THEN vL
             ELSE IF vM.kind = "raise" THEN vM
             ELSE IF manova_table.kind = "raise" THEN manova_table
             ELSE TestLoop_prepend(hypothesis, k + 1,
                                   <<<<h.name, manova_table.value>>>> \o res)

\* MANOVA.test: the loop over the hypotheses
RECURSIVE TestLoop(_, _, _)
TestLoop(hypothesis, k, res) ==
    IF k > Len(hypothesis) THEN Return(MANOVAResults(res))
    ELSE LET h  == hypothesis[k]
             vL == ValidateL(h.L)
             vM == ValidateM(h.M)
             fit_output == [params |-> reg_coeffs, df_resid |-> df_resid,
                            inv_cov |-> inv_cov_, sscpr |-> sscpr]
             manova_table == test_manova(fit_output, h.L, h.M)
         IN  IF vL.kind = "raise" THEN vL
             ELSE IF vM.kind = "raise" THEN vM
             ELSE IF manova_table.kind = "raise" THEN manova_table
             ELSE TestLoop(hypothesis, k + 1,
                           Append(res, <<h.name, manova_table.value>>))

\* MANOVA.test(hypothesis): the outcome of the call
test(hypothesis) ==
    LET hyp == DeriveHypothesis(hypothesis)
    IN  IF hyp.kind = "raise" THEN hyp
        ELSE TestLoop(hyp.value, 1, << >>)

(***************************************************************************)
(* Exact rational arithmetic: a real number is [n, d], d > 0, in lowest    *)
(* terms.                                                                  *)
(***************************************************************************)
Abs(x) == IF x < 0 THEN -x ELSE x

RECURSIVE Gcd(_, _)
Gcd(a, b) == IF b = 0 THEN a ELSE Gcd(b, a % b)

Q(n, d) ==
    LET g == Gcd(Abs(n), Abs(d))
        s == IF d < 0 THEN -1 ELSE 1
    IN  [n |-> s * (n \div g), d |-> s * (d \div g)]

QAdd(x, y) ==
    LET g == Gcd(x.d, y.d)
    IN  Q(x.n * (y.d \div g) + y.n * (x.d \div g), (x.d \div g) * y.d)

QNeg(x) == [n |-> -x.n, d |-> x.d]

QSub(x, y) == QAdd(x, QNeg(y))

QMul(x, y) ==
    LET a == Q(x.n, y.d)
        b == Q(y.n, x.d)
    IN  [n |-> a.n * b.n, d |-> a.d * b.d]

QDiv(x, y) == QMul(x, Q(y.d, y.n))

QLt(x, y) == x.n * y.d < y.n * x.d

QLe(x, y) == x.n * y.d <= y.n * x.d

QAbs(x) == [n |-> Abs(x.n), d |-> x.d]

Q0 == Q(0, 1)

Q1 == Q(1, 1)

RECURSIVE QSum(_)
QSum(s) == IF s = << >> THEN Q0 ELSE QAdd(s[1], QSum(Tail(s)))

(***************************************************************************)
(* Floating point: the eigensolver of a 3 by 3 matrix has irrational       *)
(* results, which the machine rounds.  Rounding is modelled on a grid of   *)
(* 1 / Scale, to which a number is rounded down.                           *)
(***************************************************************************)
\* the largest integer that is at most x * Scale
Floor(x) == (x.n \div x.d) * Scale + ((x.n % x.d) * Scale) \div x.d

\* the largest multiple of 1 / Scale that is at most x
Round(x) == Q(Floor(x), Scale)

\* the stored value of a number x computed from the eigenpairs of a k by k
\* matrix: exact up to 2 by 2, rounded beyond
fl(x, k) == IF k <= 2 THEN x ELSE Round(x)

\* the integer square root of n >= 0
ISqrt(n) == CHOOSE x \in 0..(n + 1) : x * x <= n /\ n < (x + 1) * (x + 1)

\* np.sqrt(x) for x >= 0, on the grid
QSqrt(x) == Q(ISqrt(Floor(x) * Scale), Scale)

(***************************************************************************)
(* Floating-point infinities and NaN: n / 0 with n = 1, -1 and 0.  numpy's  *)
(* division yields them on a zero divisor; Python's float division raises  *)
(* ZeroDivisionError instead.                                              *)
(***************************************************************************)
Inf == [n |-> 1, d |-> 0]

NaN == [n |-> 0, d |-> 0]

QI(i) == [n |-> i, d |-> 1]

IsNaN(x) == x.d = 0 /\ x.n = 0

IsInf(x) == x.d = 0 /\ x.n # 0

IsFinite(x) == x.d # 0

Sign(x) == IF x.n > 0 THEN 1 ELSE IF x.n < 0 THEN -1 ELSE 0

FAdd(x, y) ==
    IF IsNaN(x) \/ IsNaN(y) THEN NaN
    ELSE IF IsInf(x) THEN (IF IsInf(y) /\ y.n # x.n THEN NaN ELSE x)
    ELSE IF IsInf(y) THEN y
    ELSE QAdd(x, y)

FSub(x, y) == FAdd(x, [n |-> -y.n, d |-> y.d])

FMul(x, y) ==
    IF IsNaN(x) \/ IsNaN(y) THEN NaN
    ELSE IF IsInf(x) \/ IsInf(y) THEN [n |-> Sign(x) * Sign(y), d |-> 0]
    ELSE QMul(x, y)

\* numpy's x / y
FDiv(x, y) ==
    IF IsNaN(x) \/ IsNaN(y) THEN NaN
    ELSE IF IsInf(x) THEN (IF IsInf(y) THEN NaN
                           ELSE [n |-> x.n * (IF y.n < 0 THEN -1 ELSE 1), d |-> 0])
    ELSE IF IsInf(y) THEN Q0
    ELSE IF y.n = 0 THEN [n |-> Sign(x), d |-> 0]
    ELSE QDiv(x, y)

RECURSIVE FSum(_)
FSum(s) == IF s = << >> THEN Q0 ELSE FAdd(s[1], FSum(Tail(s)))

RECURSIVE QProd(_)
QProd(s) == IF s = << >> THEN Q1 ELSE QMul(s[1], QProd(Tail(s)))

\* the largest of a non-empty sequence of numbers, none of them NaN
FMax(s) ==
    IF \E i \in 1..Len(s) : s[i] = Inf THEN Inf
    ELSE s[CHOOSE i \in 1..Len(s) : \A j \in 1..Len(s) : IsInf(s[j]) \/ QLe(s[j], s[i])]

ZeroDivisionError == Raise("ZeroDivisionError", Str("float division by zero", << >>))

(***************************************************************************)
(* manova.py: multivariate_stats.  p-values come from the F distribution   *)
(* and are not modelled.  A row of the table is [Value, F_Value, Num_DF,   *)
(* Den_DF].  Wilks' Den DF  r * t - 2 * u  and F value involve a root and   *)
(* a power; they are kept as the terms they are computed from.             *)
(***************************************************************************)
StatRow(value, F, df1, df2) == [Value |-> value, F_Value |-> F, Num_DF |-> df1, Den_DF |-> df2]

\* t * t, for t = np.sqrt((p*p*q*q - 4) / (p*p + q*q - 5)) or t = 1
WilksT2(p, q) ==
    IF p * p + q * q - 5 > 0 THEN Q(p * p * q * q - 4, p * p + q * q - 5) ELSE Q1

\* df2 = r * t - 2 * u  with r = v - (p - q + 1) / 2 and u = (p*q - 2) / 4
WilksDenDF(p, q, v) ==
    [r |-> QSub(QI(v), Q(p - q + 1, 2)), t2 |-> WilksT2(p, q), u |-> Q(p * q - 2, 4)]

\* the statistics of Wilks' lambda: lmd = np.power(lmd, 1 / t),
\* F = (1 - lmd) / lmd * df2 / df1
WilksRow(value, p, q, v) ==
    StatRow(value,
            [expr |-> "(1 - lmd) / lmd * df2 / df1", lmd |-> value, t2 |-> WilksT2(p, q),
             df2 |-> WilksDenDF(p, q, v), df1 |-> p * q],
            QI(p * q), WilksDenDF(p, q, v))

\* PillaiRow with m and n exchanged
PillaiRow_exchanged(V, s, m, n) ==
    StatRow(V,
            FDiv(FMul(FDiv(QMul(QI(s), QAdd(QAdd(m, m), QI(s + 1))),
                           QMul(QI(s), QAdd(QAdd(n, n), QI(s + 1)))), V),
                 FSub(QI(s), V)),
            QMul(QI(s), QAdd(QAdd(n, n), QI(s + 1))),
            QMul(QI(s), QAdd(QAdd(m, m), QI(s + 1))))

\* the statistics of Pillai's trace: df1 = s * (2*m + s + 1),
\* df2 = s * (2*n + s + 1), F = df2 / df1 * V / (s - V)
PillaiRow(V, s, m, n) ==
    StatRow(V,
            FDiv(FMul(FDiv(QMul(QI(s), QAdd(QAdd(n, n), QI(s + 1))),
                           QMul(QI(s), QAdd(QAdd(m, m), QI(s + 1)))), V),
                 FSub(QI(s), V)),
            QMul(QI(s), QAdd(QAdd(m, m), QI(s + 1))),
            QMul(QI(s), QAdd(QAdd(n, n), QI(s + 1))))

\* Hotelling-Lawley, n > 0: c = (df2 - 2) / 2 / n, F = df2 / df1 * U / c
HotellingExactRow(U, p, q, n, df2) ==
    Return(StatRow(U,
                   FDiv(FMul(FDiv(df2, QI(p * q)), U),
                        FDiv(FDiv(FSub(df2, QI(2)), QI(2)), n)),
                   QI(p * q), df2))

\* Hotelling-Lawley, n > 0: df2 = 4 + (p*q + 2) / (b - 1), a Python float
\* division when p, q and v are Python numbers
HotellingWithB(U, p, q, n, b, py) ==
    IF py /\ b = Q1 THEN ZeroDivisionError
    ELSE HotellingExactRow(U, p, q, n, FAdd(QI(4), FDiv(QI(p * q + 2), FSub(b, Q1))))

\* Hotelling-Lawley, n > 0: b = (p + 2*n) * (q + 2*n) / 2 / (2*n + 1) / (n - 1)
HotellingExact(U, p, q, n, py) ==
    IF py /\ n = Q1 THEN ZeroDivisionError
    ELSE HotellingWithB(U, p, q, n,
                        FDiv(FDiv(FDiv(QMul(QAdd(QI(p), QAdd(n, n)), QAdd(QI(q), QAdd(n, n))),
                                       QI(2)),
                                  QAdd(QAdd(n, n), Q1)),
                             QSub(n, Q1)),
                        py)

\* Hotelling-Lawley, n <= 0: df1 = s * (2*m + s + 1), df2 = s * (s*n + 1),
\* F = df2 / df1 / s * U
HotellingApprox(U, s, m, n) ==
    Return(StatRow(U,
                   FMul(FDiv(FDiv(QMul(QI(s), QAdd(QMul(QI(s), n), Q1)),
                                  QMul(QI(s), QAdd(QAdd(m, m), QI(s + 1)))),
                             QI(s)), U),
                   QMul(QI(s), QAdd(QAdd(m, m), QI(s + 1))),
                   QMul(QI(s), QAdd(QMul(QI(s), n), Q1))))

\* the statistics of the Hotelling-Lawley trace
HotellingRow(U, p, q, s, m, n, py) ==
    IF QLt(Q0, n) THEN HotellingExact(U, p, q, n, py) ELSE HotellingApprox(U, s, m, n)

\* the statistics of Roy's greatest root: r = np.max([p, q]), df1 = r,
\* df2 = v - r + q, F = df2 / df1 * sigma
RoyRow(sigma, r, q, v) ==
    StatRow(sigma, FMul(Q(v - r + q, r), sigma), QI(r), QI(v - r + q))

\* the table, once the Hotelling-Lawley row hl has been computed or has raised
StatsTable(eigv2, eigv1, p, q, v, s, m, n, hl) ==
    IF hl.kind = "raise" THEN hl
    ELSE Return([wilks     |-> WilksRow(QProd([i \in 1..Len(eigv2) |-> QSub(Q1, eigv2[i])]),
                                        p, q, v),
                 pillai    |-> PillaiRow(QSum(eigv2), s, m, n),
                 hotelling |-> hl.value,
                 roy       |-> RoyRow(FMax(eigv1), IF p > q THEN p ELSE q, q, v)])

\* s = np.min([p, q]), m = (np.abs(p - q) - 1) / 2, n = (v - p - 1) / 2
StatsWith(eigv2, eigv1, p, q, v, s, m, n, py) ==
    StatsTable(eigv2, eigv1, p, q, v, s, m, n, HotellingRow(FSum(eigv1), p, q, s, m, n, py))

\* multivariate_stats(eigenvals, p, q, df_resid); py tells that p, q and
\* df_resid are Python integers, as in Cancorr.fit, and not numpy's, as in
\* test_manova
multivariate_stats(eigenvals, p, q, df_resid_, py) ==
    StatsWith(eigenvals, [i \in 1..Len(eigenvals) |-> FDiv(eigenvals[i], QSub(Q1, eigenvals[i]))],
              p, q, df_resid_, Min(p, q), Q(Abs(p - q) - 1, 2), Q(df_resid_ - p - 1, 2), py)

(***************************************************************************)
(* manova.py: Cancorr.  The two observation blocks are kept as their       *)
(* shapes and s, the singular values of ux.T.dot(uy) as svd returns them:  *)
(* in descending order, and off [0, 1] by roundoff only.  The coefficient  *)
(* matrices are kept as the expressions that produce them.                 *)
(***************************************************************************)
\* Cancorr.__init__(endog, exog): endog is nobs by p and exog nobs by q
Cancorr__init__(nobs, p, q, s) ==
    [isNone |-> FALSE, nobs |-> nobs, p |-> p, q |-> q, s |-> s,
     cancorr |-> None, x_cancoef |-> None, y_cancoef |-> None,
     stats |-> None, multi_stats |-> None]

\* Python's min(a, b) and max(a, b): the first argument unless the second
\* is smaller (larger)
py_min(a, b) == IF QLt(b, a) THEN b ELSE a

py_max(a, b) == IF QLt(a, b) THEN b ELSE a

\* ClipRoundoff without the lower bound
ClipRoundoff_upper(s) == [i \in 1..Len(s) |-> py_min(s[i], Q1)]

\* np.array([max(0, min(s[i], 1)) for i in range(len(s))])
ClipRoundoff(s) == [i \in 1..Len(s) |-> py_max(Q0, py_min(s[i], Q1))]

\* df2 = r * t - 2 * u  of the pair i, with p1 = p - i and q1 = q - i:
\* r = (nobs - q - 1) - (p1 - q1 + 1) / 2, u = (p1*q1 - 2) / 4 and t the
\* root of (p1*p1*q1*q1 - 4) / (p1*p1 + q1*q1 - 5), or 1
PairDenDF(nobs, q, p1, q1) ==
    [r  |-> QSub(QI(nobs - q - 1), Q(p1 - q1 + 1, 2)),
     t2 |-> IF p1 * p1 + q1 * q1 - 5 > 0
            THEN Q(p1 * p1 * q1 * q1 - 4, p1 * p1 + q1 * q1 - 5) ELSE Q1,
     u  |-> Q(p1 * q1 - 2, 4)]

\* the row self.stats.loc[i, ...] for the running product prod
PairRow(i, prod, nobs, p, q) ==
    [index   |-> i,
     Value   |-> prod,
     Num_DF  |-> QI((p - i) * (q - i)),
     Den_DF  |-> PairDenDF(nobs, q, p - i, q - i),
     F_Value |-> [expr |-> "(1 - lmd) / lmd * df2 / df1", lmd |-> prod,
                  df2 |-> PairDenDF(nobs, q, p - i, q - i), df1 |-> (p - i) * (q - i)]]

\* for i in range(len(eigenvals)-1, -1, -1): prod *= 1 - eigenvals[i] and the
\* row of index i is appended to self.stats
RECURSIVE PairLoop(_, _, _, _, _, _, _)
PairLoop(eigenvals, i, prod, rows, nobs, p, q) ==
    IF i < 0 THEN rows
    ELSE PairLoop(eigenvals, i - 1, QMul(prod, QSub(Q1, eigenvals[i + 1])),
                  Append(rows, PairRow(i, QMul(prod, QSub(Q1, eigenvals[i + 1])), nobs, p, q)),
                  nobs, p, q)

\* PairTable with the rows left in the order the loop appended them
PairTable_unordered(eigenvals, nobs, p, q) ==
    PairLoop(eigenvals, Len(eigenvals) - 1, Q1, << >>, nobs, p, q)

\* the per-pair table: the loop, then ind = self.stats.index.values[::-1];
\* self.stats = self.stats.loc[ind, :]
PairTable(eigenvals, nobs, p, q) ==
    Reversed(PairLoop(eigenvals, Len(eigenvals) - 1, Q1, << >>, nobs, p, q))

\* Cancorr.fit: the end, self.multi_stats = ms unless multivariate_stats
\* raised; CancorrResults(self) is the object itself
CancorrFitEnd(self, ms) ==
    IF ms.kind = "raise" THEN [ret |-> ms, self |-> self]
    ELSE [ret  |-> Return([self EXCEPT !.multi_stats = ms.value]),
          self |-> [self EXCEPT !.multi_stats = ms.value]]

\* Cancorr.fit: from eigenvals = np.power(self.cancorr, 2) on
CancorrFitStats(self, eigenvals) ==
    CancorrFitEnd([self EXCEPT !.stats = PairTable(eigenvals, self.nobs, self.p, self.q)],
                  multivariate_stats(eigenvals, self.p, self.q, self.nobs - self.q - 1, TRUE))

\* Cancorr.fit: from the clipped canonical correlations on
CancorrFitWith(self, cc) ==
    CancorrFitStats([self EXCEPT !.cancorr = Array(<<Len(cc)>>, cc),
                                 !.x_cancoef = [expr |-> "vx_ds.dot(u[:, :k])",
                                                shape |-> <<self.q, Min(self.p, self.q)>>],
                                 !.y_cancoef = [expr |-> "vy_ds.dot(v.T[:, :k])",
                                                shape |-> <<self.p, Min(self.p, self.q)>>]],
                    [i \in 1..Len(cc) |-> QMul(cc[i], cc[i])])

\* Cancorr.fit(): the outcome and the object after the call
CancorrFit(self) == CancorrFitWith(self, ClipRoundoff(self.s))

(***************************************************************************)
(* numpy on exact numbers, as factor.py uses it.  The observation matrix   *)
(* of a Factor is kept as its number of columns k and a Pearson            *)
(* correlation corr: of its two columns for k = 2; for k = 3 the first     *)
(* column correlates corr with the two others, which correlate corr / 2    *)
(* with each other.  Every quantity fit_pa computes is a function of       *)
(* these, exact for k <= 2 and rounded by the eigensolver for k = 3.       *)
(***************************************************************************)
\* np.corrcoef(endog, rowvar=0): a 0-d array for one column (cov squeezes
\* its result and corrcoef returns c / c), else the k by k matrix
np_corrcoef(endog_) ==
    IF endog_.k = 1 THEN Array(<< >>, <<Q1>>)
    ELSE IF endog_.k = 2 THEN Array(<<2, 2>>, <<Q1, endog_.corr, endog_.corr, Q1>>)
    ELSE Array(<<3, 3>>, <<Q1, endog_.corr, endog_.corr,
                           endog_.corr, Q1, QMul(endog_.corr, Q(1, 2)),
                           endog_.corr, QMul(endog_.corr, Q(1, 2)), Q1>>)

Det2(R) == QSub(QMul(R.data[1], R.data[4]), QMul(R.data[2], R.data[3]))

\* the cofactor (i, j), 0-based, of a 3 by 3 matrix
Cof3(R, i, j) ==
    QSub(QMul(At(R, (i + 1) % 3, (j + 1) % 3), At(R, (i + 2) % 3, (j + 2) % 3)),
         QMul(At(R, (i + 1) % 3, (j + 2) % 3), At(R, (i + 2) % 3, (j + 1) % 3)))

Det3(R) == QSum([j \in 1..3 |-> QMul(At(R, 0, j - 1), Cof3(R, 0, j - 1))])

\* numpy.linalg.matrix_rank
matrix_rank(R) ==
    IF \A i \in 1..Len(R.data) : R.data[i] = Q0 THEN 0
    ELSE IF Len(R.shape) < 2 THEN 1
    ELSE IF R.shape[1] = 2 THEN (IF Det2(R) = Q0 THEN 1 ELSE 2)
    ELSE IF Det3(R) # Q0 THEN 3
    ELSE IF \E i, j \in 0..2 : Cof3(R, i, j) # Q0 THEN 2
    ELSE 1

\* the inverse of a 2 by 2 matrix of determinant d
Inv2(R, d) ==
    IF d = Q0 THEN Raise("LinAlgError", Str("Singular matrix", << >>))
    ELSE Return(Array(<<2, 2>>, <<QDiv(R.data[4], d), QDiv(QNeg(R.data[2]), d),
                                  QDiv(QNeg(R.data[3]), d), QDiv(R.data[1], d)>>))

\* the inverse of a 3 by 3 matrix of determinant d: the transposed cofactors
\* over d
Inv3(R, d) ==
    IF d = Q0 THEN Raise("LinAlgError", Str("Singular matrix", << >>))
    ELSE Return(Array(<<3, 3>>,
                      [m \in 1..9 |-> QDiv(Cof3(R, (m - 1) % 3, (m - 1) \div 3), d)]))

\* numpy.linalg.inv
inv(R) ==
    IF Len(R.shape) < 2
    THEN Raise("LinAlgError",
               Str("%d-dimensional array given. Array must be at least two-dimensional",
                   <<Len(R.shape)>>))
    ELSE IF R.shape[1] = 2 THEN Inv2(R, Det2(R))
    ELSE Inv3(R, Det3(R))

\* len(A): a 0-d array has no length
PyLen(A) ==
    IF Len(A.shape) = 0 THEN Raise("TypeError", Str("len() of unsized object", << >>))
    ELSE Return(A.shape[1])

\* A[j]: a scalar of a 1-d array, a row of a 2-d array
GetItem0(A, j) ==
    IF Len(A.shape) = 0
    THEN Raise("IndexError", Str("too many indices for array", << >>))
    ELSE IF j >= A.shape[1]
    THEN Raise("IndexError", Str("index %d is out of bounds for axis 0 with size %d",
                                 <<j, A.shape[1]>>))
    ELSE IF Len(A.shape) = 1 THEN Return(Array(<< >>, <<A.data[j + 1]>>))
    ELSE Return(Array(<<A.shape[2]>>,
                      [i \in 1..A.shape[2] |-> A.data[j * A.shape[2] + i]]))

RECURSIVE SetDiag(_, _, _)

\* R[j, j] = e, where e is c[j]: an array of more than one element cannot be
\* stored into one entry of R
SetEntry(R, c, j, e) ==
    IF e.kind = "raise" THEN e
    ELSE IF Len(e.value.data) # 1
    THEN Raise("ValueError", Str("setting an array element with a sequence.", << >>))
    ELSE SetDiag([R EXCEPT !.data[j * R.shape[2] + j + 1] = e.value.data[1]], c, j + 1)

\* for j in range(len(R)): R[j, j] = c[j]
SetDiag(R, c, j) ==
    IF j >= R.shape[1] THEN Return(R) ELSE SetEntry(R, c, j, GetItem0(c, j))

\* numpy.linalg.eigh(R, UPLO='U') of a 2 by 2 matrix: eigenvalues L in
\* ascending order and V2, the squares of the entries of the eigenvectors
\* (columns).  A diagonal matrix has the unit vectors as eigenvectors; a
\* matrix  a r / r a  has a - |r|, a + |r| with eigenvectors (1, -+1)/sqrt(2).
\* fit_pa only ever produces these two kinds of matrix.
eigh2(R) ==
    LET a == R.data[1]
        r == R.data[2]
        b == R.data[4]
        half == Q(1, 2)
    IN  IF r = Q0
        THEN IF QLe(a, b)
             THEN [L |-> <<a, b>>, V2 |-> Array(<<2, 2>>, <<Q1, Q0, Q0, Q1>>)]
             ELSE [L |-> <<b, a>>, V2 |-> Array(<<2, 2>>, <<Q0, Q1, Q1, Q0>>)]
        ELSE IF a = b
        THEN [L |-> <<QSub(a, QAbs(r)), QAdd(a, QAbs(r))>>,
              V2 |-> Array(<<2, 2>>, <<half, half, half, half>>)]
        ELSE [L |-> << >>, V2 |-> Array(<<0, 0>>, << >>)]

\* the squares of the entries of the normalised vector (x, y, y)
UnitSquares(x2, y2) ==
    <<Round(QDiv(x2, QAdd(x2, QAdd(y2, y2)))), Round(QDiv(y2, QAdd(x2, QAdd(y2, y2))))>>

\* the eigenpair of the eigenvalue l of  a r r / r b s / r s b  whose
\* eigenvector is (2r, l - a, l - a), as [l, squares of the unit eigenvector]
SymmetricPair(l, a, r) ==
    [l |-> l, v |-> UnitSquares(QMul(QAdd(r, r), QAdd(r, r)), QMul(QSub(l, a), QSub(l, a)))]

\* the eigenpairs of  a r r / r b s / r s b  with r # 0 in ascending order of
\* eigenvalue, given the root rt of the discriminant: (a + b + s -+ rt) / 2
\* with symmetric eigenvectors, and b - s with eigenvector (0, 1, -1)/sqrt(2)
Ascending3(lo, hi, mid) ==
    IF QLe(mid.l, lo.l) THEN <<mid, lo, hi>>
    ELSE IF QLe(mid.l, hi.l) THEN <<lo, mid, hi>>
    ELSE <<lo, hi, mid>>

\* eigenvalues and squared eigenvector entries (columns) of sorted eigenpairs
FromPairs(ps) ==
    [L  |-> [i \in 1..3 |-> ps[i].l],
     V2 |-> Array(<<3, 3>>, [m \in 1..9 |->
                IF (m - 1) \div 3 = 0 THEN ps[((m - 1) % 3) + 1].v[1]
                ELSE ps[((m - 1) % 3) + 1].v[2]])]

eigh3With(a, b, r, s, rt) ==
    FromPairs(Ascending3(SymmetricPair(QMul(QSub(QAdd(a, QAdd(b, s)), rt), Q(1, 2)), a, r),
                         SymmetricPair(QMul(QAdd(QAdd(a, QAdd(b, s)), rt), Q(1, 2)), a, r),
                         [l |-> QSub(b, s), v |-> <<Q0, Q(1, 2)>>]))

\* numpy.linalg.eigh(R, UPLO='U') of a 3 by 3 matrix  a r r / r b s / r s b
\* with r # 0, in floating point: the diagonal is rounded and so is the
\* root of the discriminant (a - b - s)^2 + 8 r^2.  fit_pa only ever
\* produces this kind of 3 by 3 matrix.
eigh3(a, b, r, s) ==
    eigh3With(a, b, r, s,
              QSqrt(QAdd(QMul(QSub(a, QAdd(b, s)), QSub(a, QAdd(b, s))),
                         QMul(Q(8, 1), QMul(r, r)))))

\* numpy.linalg.eigh(R, UPLO='U'): eigenvalues L in ascending order and V2,
\* the squares of the entries of the eigenvectors (columns)
eigh(R) ==
    IF R.shape[1] = 2 THEN eigh2(R)
    ELSE eigh3(Round(At(R, 0, 0)), Round(At(R, 1, 1)), At(R, 0, 1), At(R, 1, 2))

\* np.argsort(L): 0-based indices that sort L ascending (stable)
RECURSIVE np_argsort(_, _)
np_argsort(L, done) ==
    IF Len(done) = Len(L) THEN done
    ELSE LET rest == {i \in 0..(Len(L) - 1) : \A k \in 1..Len(done) : done[k] # i}
             best == CHOOSE i \in rest :
                        \A k \in rest : QLt(L[i + 1], L[k + 1])
                                        \/ (~QLt(L[k + 1], L[i + 1]) /\ i <= k)
         IN  np_argsort(L, Append(done, best))

(***************************************************************************)
(* factor.py                                                               *)
(***************************************************************************)
NoneStr == [isNone |-> TRUE, s |-> ""]

S(s) == [isNone |-> FALSE, s |-> s]

\* a loadings matrix: shape, the squares of its entries (their signs are the
\* eigensolver's choice) and the rotation routines applied to it, in order
Loadings(shape, sq, rot) == [isNone |-> FALSE, shape |-> shape, sq |-> sq, rot |-> rot]

\* Factor.__init__(endog, n_factor, method=...)
Factor__init__(endog_, n_factor, method) ==
    IF n_factor <= 0
    THEN Raise("ValueError", Str("n_factor must be larger than 0! %d < 0", <<n_factor>>))
    ELSE IF n_factor > endog_.k
    THEN Raise("ValueError",
               Str("n_factor must be smaller or equal to the number of columns of endog! %d > %d",
                   <<n_factor, endog_.k>>))
    ELSE Return([isNone |-> FALSE, endog |-> endog_, n_factor |-> n_factor,
                 loadings |-> None, communality |-> None, eigenvals |-> None,
                 method |-> method, n_comp |-> None, SMC |-> None])

\* FactorResults.__init__(factor)
FactorResults(f) ==
    [isNone |-> FALSE,
     loadings_no_rot |-> f.loadings,
     loadings        |-> f.loadings,
     eigenvals       |-> f.eigenvals,
     communality     |-> f.communality,
     rotation_method |-> NoneStr,
     n_comp          |-> f.n_comp]

\* c = 1 - 1 / np.diag(inv(R))
SquaredMultipleCorrelation(Ri) ==
    IF Ri.kind = "raise" THEN Ri
    ELSE Return(Array(<<Ri.value.shape[1]>>,
                      [j \in 1..Ri.value.shape[1] |->
                          QSub(Q1, QDiv(Q1, At(Ri.value, j - 1, j - 1)))]))

\* c = np.ones([1, len(R)])
Ones1ByLen(n) ==
    IF n.kind = "raise" THEN n
    ELSE Return(Array(<<1, n.value>>, [j \in 1..n.value |-> Q1]))

\* fit_pa: initial communality estimation
InitialCommunality(R, SMC) ==
    IF SMC THEN SquaredMultipleCorrelation(inv(R)) ELSE Ones1ByLen(PyLen(R))

\* (L > 0).sum()
CountPositive(L) == Cardinality({i \in 1..Len(L) : QLt(Q0, L[i])})

\* L = L[ind]; V = V[:, ind]
Reorder(e, ind) ==
    [L  |-> [i \in 1..Len(ind) |-> e.L[ind[i] + 1]],
     V2 |-> [j \in 1..Len(ind) |-> [i \in 1..Len(ind) |-> At(e.V2, j - 1, ind[i])]]]

\* ind = np.argsort(L)[::-1]: eigenvalues descending, eigenvectors with them
SortDescending(e) == Reorder(e, Reversed(np_argsort(e.L, << >>)))

\* c = np.power(A, 2).sum(axis=1), with the eigenvalues and loadings of the pass
WithCommunality(L, k, n, A) ==
    [eigenvals |-> Array(<<k>>, L),
     A         |-> Loadings(<<k, n>>, A, << >>),
     c         |-> Array(<<k>>, [j \in 1..k |-> fl(QSum(A[j]), k)])]

\* sL = np.diag(np.sqrt(L[:n])); V = V[:, :n]; A = V.dot(sL)
Project(s, k, n) ==
    WithCommunality(s.L, k, n, [j \in 1..k |-> [i \in 1..n |-> QMul(s.V2[j][i], s.L[i])]])

\* SelectPositive with n_factor eigenpairs retained whatever their sign
SelectPositive_no_truncation(s, k, n_factor) == Project(s, k, n_factor)

\* n_pos = (L > 0).sum(); n = np.min([n_pos, self.n_factor])
SelectPositive(s, k, n_factor) == Project(s, k, Min(CountPositive(s.L), n_factor))

\* fit_pa: one pass of the loop body after R's diagonal has been replaced:
\* eigenvalues sorted descending, loadings A and the new communality c
Extract(R, n_factor) == SelectPositive(SortDescending(eigh(R)), R.shape[1], n_factor)

\* the squared length of c_last - c
SquaredNorm(d) == QSum([j \in 1..Len(d) |-> QMul(d[j], d[j])])

\* norm(c_last - c) < tolerance, for tolerance > 0
Converged(c_last, c, tolerance) ==
    QLt(SquaredNorm([j \in 1..Len(c.data) |-> QSub(c_last.data[j], c.data[j])]),
        QMul(tolerance, tolerance))

RECURSIVE Iterate(_, _, _, _, _, _, _)

\* IterateEnd without the break
IterateEnd_no_break(R, x, c_last, i, n_max_iter, n_factor, tolerance) ==
    Iterate(R, x.c, i + 1, n_max_iter, n_factor, tolerance, x)

\* fit_pa: the end of a pass of the loop: break when converged
IterateEnd(R, x, c_last, i, n_max_iter, n_factor, tolerance) ==
    IF Converged(c_last, x.c, tolerance)
    THEN [out |-> Return(x), n_iter |-> i + 1]
    ELSE Iterate(R, x.c, i + 1, n_max_iter, n_factor, tolerance, x)

\* fit_pa: a pass of the loop once R[j, j] = c[j] has been done for every j
IterateBody(Rd, c, i, n_max_iter, n_factor, tolerance) ==
    IF Rd.kind = "raise" THEN [out |-> Rd, n_iter |-> i]
    ELSE IterateEnd(Rd.value, Extract(Rd.value, n_factor), c, i, n_max_iter, n_factor,
                    tolerance)

\* fit_pa: iterative communality estimation, for i in range(n_max_iter);
\* n_iter counts the passes of the loop body that ran to their end; a loop
\* of no pass leaves A unbound at self.loadings = A
Iterate(R, c, i, n_max_iter, n_factor, tolerance, last) ==
    IF i >= n_max_iter
    THEN [out    |-> IF i = 0
                     THEN Raise("UnboundLocalError",
                                Str("local variable 'A' referenced before assignment",
                                    << >>))
                     ELSE Return(last),
          n_iter |-> i]
    ELSE IterateBody(SetDiag(R, c, 0), c, i, n_max_iter, n_factor, tolerance)

\* ValidateControls with n_max_iter = 0 and tolerance up to 0.1 let through
ValidateControls_loose(self, n_max_iter, tolerance) ==
    IF self.n_factor > self.n_comp.data[1]
    THEN Raise("ValueError",
               Str("n_factor must be smaller or equal to the rank of endog! %d > %d",
                   <<self.n_factor, self.n_comp.data[1]>>))
    ELSE IF n_max_iter < 0
    THEN Raise("ValueError", Str("n_max_iter must be larger than 0! %d < 0", <<n_max_iter>>))
    ELSE IF QLe(tolerance, Q0) \/ QLt(Q(1, 10), tolerance)
    THEN Raise("ValueError",
               Str("tolerance must be larger than 0 and smaller than 0.01! Got %f instead",
                   <<tolerance>>))
    ELSE Return(<< >>)

\* fit_pa: validation of n_factor against the rank, of n_max_iter and of
\* tolerance
ValidateControls(self, n_max_iter, tolerance) ==
    IF self.n_factor > self.n_comp.data[1]
    THEN Raise("ValueError",
               Str("n_factor must be smaller or equal to the rank of endog! %d > %d",
                   <<self.n_factor, self.n_comp.data[1]>>))
    ELSE IF n_max_iter <= 0
    THEN Raise("ValueError", Str("n_max_iter must be larger than 0! %d < 0", <<n_max_iter>>))
    ELSE IF QLe(tolerance, Q0) \/ QLt(Q(1, 100), tolerance)
    THEN Raise("ValueError",
               Str("tolerance must be larger than 0 and smaller than 0.01! Got %f instead",
                   <<tolerance>>))
    ELSE Return(<< >>)

\* fit_pa: self.eigenvals, self.communality, self.loadings are set and the
\* results object is returned, unless the loop raised
FitEnd(self, it) ==
    IF it.out.kind = "raise" THEN [ret |-> it.out, self |-> self, n_iter |-> it.n_iter]
    ELSE [ret    |-> Return(FactorResults([self EXCEPT
                                              !.eigenvals   = it.out.value.eigenvals,
                                              !.communality = it.out.value.c,
                                              !.loadings    = it.out.value.A])),
          self   |-> [self EXCEPT !.eigenvals   = it.out.value.eigenvals,
                                  !.communality = it.out.value.c,
                                  !.loadings    = it.out.value.A],
          n_iter |-> it.n_iter]

\* fit_pa: from the initial communality c (self.SMC when SMC is on) through
\* the loop
FitLoop(self, R, c, n_max_iter, tolerance, SMC) ==
    IF c.kind = "raise" THEN [ret |-> c, self |-> self, n_iter |-> 0]
    ELSE FitEnd(IF SMC THEN [self EXCEPT !.SMC = c.value] ELSE self,
                Iterate(R, c.value, 0, n_max_iter, self.n_factor, tolerance, << >>))

\* fit_pa: after R and self.n_comp have been computed
FitChecked(self, R, v, n_max_iter, tolerance, SMC) ==
    IF v.kind = "raise" THEN [ret |-> v, self |-> self, n_iter |-> 0]
    ELSE FitLoop(self, R, InitialCommunality(R, SMC), n_max_iter, tolerance, SMC)

\* fit_pa: self.n_comp = matrix_rank(R), then the validation
FitRanked(self, R, n_max_iter, tolerance, SMC) ==
    FitChecked(self, R, ValidateControls(self, n_max_iter, tolerance), n_max_iter,
               tolerance, SMC)

\* fit_pa: R = np.corrcoef(self.endog, rowvar=0)
FitOn(self, R, n_max_iter, tolerance, SMC) ==
    FitRanked([self EXCEPT !.n_comp = Array(<< >>, <<matrix_rank(R)>>)], R, n_max_iter, tolerance, SMC)

\* Factor.fit_pa(n_max_iter, tolerance, SMC): the outcome, the Factor object
\* after the call and the number of iterations performed
fit_pa(self, n_max_iter, tolerance, SMC) ==
    FitOn(self, np_corrcoef(self.endog), n_max_iter, tolerance, SMC)

\* Factor.fit(**kwargs)
fit(self, n_max_iter, tolerance, SMC) ==
    IF self.method = "pa" THEN fit_pa(self, n_max_iter, tolerance, SMC)
    ELSE [ret |-> Raise("ValueError",
                        Str("Unknown factor extraction approach '%s'", <<self.method>>)),
          self |-> self, n_iter |-> 0]

\* an invocation of a routine of factor_rotation
Routine(routine, method) == [routine |-> routine, method |-> method]

\* factor_rotation.rotate_factors(A, method)
rotate_factors(A, method) == [A EXCEPT !.rot = Append(@, Routine("rotate_factors", method))]

\* factor_rotation.promax(A)
promax(A) == [A EXCEPT !.rot = Append(@, Routine("promax", ""))]

\* RotationMethods with the internal name of oblimin listed too
RotationMethods_quartimin ==
    {"varimax", "quartimax", "biquartimax", "equamax", "oblimin", "quartimin",
     "parsimax", "parsimony", "biquartimin", "promax"}

\* the rotation names FactorResults.rotate accepts
RotationMethods == {"varimax", "quartimax", "biquartimax", "equamax", "oblimin",
                    "parsimax", "parsimony", "biquartimin", "promax"}

\* the names passed on to rotate_factors unchanged
OrthomaxFamily == {"varimax", "quartimax", "biquartimax", "equamax",
                   "parsimax", "parsimony", "biquartimin"}

\* self.loadings, T = <routine>(A): the object after the assignment and the
\* routine invoked
Rotated(self, A, r) ==
    [ret     |-> Return(None),
     self    |-> [self EXCEPT !.loadings =
                     IF r.routine = "promax" THEN promax(A)
                     ELSE rotate_factors(A, r.method)],
     invoked |-> <<r>>]

\* RotateWith applied to the current loadings, so that rotations accumulate
RotateWith_current(self, method) ==
    IF method \notin RotationMethods
    THEN [ret |-> Raise("ValueError", Str("Unknown rotation method %s", <<method>>)),
          self |-> self, invoked |-> << >>]
    ELSE IF method \in OrthomaxFamily
    THEN Rotated(self, self.loadings, Routine("rotate_factors", method))
    ELSE IF method = "oblimin"
    THEN Rotated(self, self.loadings, Routine("rotate_factors", "quartimin"))
    ELSE IF method = "promax"
    THEN Rotated(self, self.loadings, Routine("promax", ""))
    ELSE [ret |-> Return(None), self |-> self, invoked |-> << >>]

\* FactorResults.rotate once self.rotation_method has been set: the check of
\* the name and the dispatch
RotateWith(self, method) ==
    IF method \notin RotationMethods
    THEN [ret |-> Raise("ValueError", Str("Unknown rotation method %s", <<method>>)),
          self |-> self, invoked |-> << >>]
    ELSE IF method \in OrthomaxFamily
    THEN Rotated(self, self.loadings_no_rot, Routine("rotate_factors", method))
    ELSE IF method = "oblimin"
    THEN Rotated(self, self.loadings_no_rot, Routine("rotate_factors", "quartimin"))
    ELSE IF method = "promax"
    THEN Rotated(self, self.loadings_no_rot, Routine("promax", ""))
    ELSE [ret |-> Return(None), self |-> self, invoked |-> << >>]

\* FactorResults.rotate(method): the outcome, the object after the call and
\* the rotation routines the call invoked
rotate(self, method) == RotateWith([self EXCEPT !.rotation_method = S(method)], method)

\* FactorResults.plot_loadings(plot_prerotated=...): the loadings plotted
\* and the title of the figures
plot_loadings(self, plot_prerotated) ==
    IF self.rotation_method.isNone \/ plot_prerotated
    THEN [loadings |-> self.loadings_no_rot, title |-> Str("Prerotated Factor Pattern", << >>)]
    ELSE [loadings |-> self.loadings,
          title |-> Str("%s Rotated Factor Pattern", <<self.rotation_method.s>>)]

(***************************************************************************)
(* Inputs                                                                  *)
(***************************************************************************)
\* design_info.term_name_slices of a formula-built model with q columns: an
\* intercept column and, when there are more columns, one categorical term
Design(q) ==
    [isNone |-> FALSE,
     term_name_slices |->
        <<[name |-> Str("Intercept", << >>), start |-> 0, stop |-> 1]>>
        \o (IF q > 1 THEN <<[name |-> Str("Loc", << >>), start |-> 1, stop |-> q]>>
            ELSE << >>)]

NoDesign == [isNone |-> TRUE, term_name_slices |-> << >>]

\* contrast matrices: a 1-d array, a zero row, rows of ones of width 1 and
\* MaxDim
ContrastInputs ==
    {Full(<<MaxDim>>, 1), np_zeros(<<1, MaxDim>>), Full(<<1, 1>>, 1), Full(<<1, MaxDim>>, 1)}

\* transform matrices: a 1-d array, columns of ones of height 1 and MaxDim
TransformInputs ==
    {Full(<<MaxDim>>, 1), Full(<<1, 1>>, 1), Full(<<MaxDim, 1>>, 1)}

\* the (L, M) pairs of the hypotheses passed to MANOVA.test
LMInputs ==
    {<<L, None>> : L \in ContrastInputs}
    \cup {<<Full(<<1, 1>>, 1), M>> : M \in TransformInputs \ {Full(<<MaxDim>>, 1)}}
    \cup {<<Full(<<1, MaxDim>>, 1), M>> : M \in TransformInputs \ {Full(<<1, 1>>, 1)}}

HypName(k) == Str(IF k % 2 = 1 THEN "test" ELSE "other", << >>)

\* the hypothesis lists passed to MANOVA.test: the k-th tuple is named by k
HypLists ==
    UNION {{[k \in 1..n |-> [name |-> HypName(k), L |-> lm[k][1], M |-> lm[k][2]]] :
                lm \in [1..n -> LMInputs]} : n \in 0..MaxHyp}

HypothesisInputs ==
    {[isNone |-> TRUE, list |-> << >>]}
    \cup {[isNone |-> FALSE, list |-> l] : l \in HypLists}

\* observation matrices of a Factor: one column, or two columns with a
\* correlation that is a multiple of 1 / RDen
EndogInputs ==
    {[k |-> 1, corr |-> Q0]} \cup {[k |-> 2, corr |-> Q(n, RDen)] : n \in (-RDen)..RDen}

\* observation matrices for fitting: those of EndogInputs and two weakly
\* correlated columns, on which the communality converges within MaxIter
\* passes
EndogFitInputs == EndogInputs \cup {[k |-> 2, corr |-> Q(1, 40)]}

\* observation matrices of three columns
Endog3Inputs == {[k |-> 3, corr |-> Q(4, 5)]}

\* the ranks p and q
RankInputs == (1..MaxRank) \X (1..MaxRank)

\* raw singular values: 0, 1/2 and 1, and off [0, 1] by roundoff
SingularGrid == {Q(-1, 8), Q0, Q(1, 2), Q1, Q(9, 8)}

\* the singular values svd returns: k of them, in descending order
SingularInputs(k) ==
    {s \in [1..k -> SingularGrid] : \A i \in 1..(k - 1) : QLe(s[i + 1], s[i])}

\* eigenvalues of (E + H)^ H, sorted ascending
EigenvalInputs == {<<Q0, Q1>>, <<Q(1, 4), Q(1, 2)>>}

ToleranceInputs == {Q(-1, 100), Q0, Q(1, 200), Q(1, 100), Q(1, 50)}

RotateInputs == RotationMethods \cup {"quartimin", "Varimax"}

(***************************************************************************)
(* The state machine                                                       *)
(***************************************************************************)
\* a call on the Factor or its results: the operation, its arguments, the
\* rotation_method the results object had when rotate was called, the number
\* of iterations fit_pa performed and the rotation routines rotate invoked
FCall(op, args, prev_method, n_iter, invoked) ==
    [op |-> op, args |-> args, prev_method |-> prev_method, n_iter |-> n_iter,
     invoked |-> invoked]

\* a call on the MANOVA model: the operation, its argument and how the call
\* before it ended ("none", "return" or "raise")
MCall(op, hypothesis, prev) == [op |-> op, hypothesis |-> hypothesis, prev |-> prev]

\* no Factor has been constructed
FactorIdle ==
    /\ factor = None
    /\ results = None
    /\ f_call = FCall("none", << >>, NoneStr, 0, << >>)
    /\ f_ret = NoCall

\* a call of Cancorr or of multivariate_stats: the operation and its arguments
CCall(op, args) == [op |-> op, args |-> args]

\* no Cancorr has been constructed and multivariate_stats has not been called
CancorrIdle ==
    /\ cancorr = None
    /\ c_call = CCall("none", << >>)
    /\ c_ret = NoCall

\* MANOVA.__init__(endog, exog, design_info)
MANOVA__init__(endog_, exog_, design_info_) ==
    LET out == fit_manova(exog_, endog_).value
    IN  /\ design_info = design_info_
        /\ reg_coeffs = out.params
        /\ df_resid = out.df_resid
        /\ inv_cov_ = out.inv_cov
        /\ sscpr = out.sscpr
        /\ endog = endog_
        /\ exog = exog_
        /\ m_call = MCall("__init__", [isNone |-> TRUE, list |-> << >>], "none")
        /\ m_ret = NoCall

\* a MANOVA model has been constructed on data with q exog and p endog columns
InitManova ==
    /\ \E q \in 1..MaxDim, p \in 1..MaxDim :
         \E d \in {NoDesign, Design(q)} :
            MANOVA__init__(Data("endog", MaxDim + 3, p), Data("exog", MaxDim + 3, q), d)
    /\ FactorIdle
    /\ CancorrIdle

\* MANOVA_test with the transformed residual matrix E stored over self.sscpr
MANOVA_test_store(hypothesis) ==
    /\ m_ret' = test(hypothesis)
    /\ m_call' = MCall("test", hypothesis, m_ret.kind)
    /\ sscpr' = [sscpr EXCEPT !.expr = "M.T.dot(sscpr).dot(M)"]
    /\ UNCHANGED <<endog, exog, design_info, reg_coeffs, df_resid, inv_cov_>>
    /\ UNCHANGED <<fvars, cvars>>

\* MANOVA.test(hypothesis)
MANOVA_test(hypothesis) ==
    /\ m_ret' = test(hypothesis)
    /\ m_call' = MCall("test", hypothesis, m_ret.kind)
    /\ UNCHANGED <<endog, exog, design_info, reg_coeffs, df_resid, inv_cov_, sscpr>>
    /\ UNCHANGED <<fvars, cvars>>

NextManova == \E h \in HypothesisInputs : MANOVA_test(h)

SpecManova == InitManova /\ [][NextManova]_vars

\* Factor(endog, n_factor, method=method)
Factor_new(endog_, n_factor, method) ==
    /\ factor.isNone
    /\ \E o \in {Factor__init__(endog_, n_factor, method)} :
           /\ factor' = IF o.kind = "return" THEN o.value ELSE factor
           /\ f_ret' = o
    /\ f_call' = FCall("__init__", <<endog_, n_factor, method>>, NoneStr, 0, << >>)
    /\ UNCHANGED results
    /\ UNCHANGED <<mvars, cvars>>

\* factor.fit(n_max_iter=..., tolerance=..., SMC=...)
Factor_fit(n_max_iter, tolerance, SMC) ==
    /\ ~factor.isNone
    /\ \E o \in {fit(factor, n_max_iter, tolerance, SMC)} :
           /\ factor' = o.self
           /\ results' = IF o.ret.kind = "return" THEN o.ret.value ELSE results
           /\ f_ret' = o.ret
           /\ f_call' = FCall("fit", <<n_max_iter, tolerance, SMC>>, NoneStr, o.n_iter, << >>)
    /\ UNCHANGED <<mvars, cvars>>

\* results.rotate(method)
FactorResults_rotate(method) ==
    /\ ~results.isNone
    /\ \E o \in {rotate(results, method)} :
           /\ results' = o.self
           /\ f_ret' = o.ret
           /\ f_call' = FCall("rotate", <<method>>, results.rotation_method, 0, o.invoked)
    /\ UNCHANGED factor
    /\ UNCHANGED <<mvars, cvars>>

\* the Factor state machine runs beside one constructed MANOVA model
InitFactor ==
    /\ MANOVA__init__(Data("endog", MaxDim + 3, MaxDim), Data("exog", MaxDim + 3, MaxDim),
                      NoDesign)
    /\ FactorIdle
    /\ CancorrIdle

NextFactor ==
    \/ \E e \in EndogInputs, n \in 0..3, m \in {"pa", "ml"} : Factor_new(e, n, m)
    \/ \E n \in 0..MaxIter, t \in ToleranceInputs, b \in BOOLEAN : Factor_fit(n, t, b)
    \/ \E m \in RotateInputs : FactorResults_rotate(m)

SpecFactor == InitFactor /\ [][NextFactor]_vars

\* Cancorr(endog, exog)
Cancorr_new(nobs, p, q, s) ==
    /\ cancorr' = Cancorr__init__(nobs, p, q, s)
    /\ c_call' = CCall("__init__", <<nobs, p, q, s>>)
    /\ c_ret' = Return(None)
    /\ UNCHANGED <<mvars, fvars>>

\* cancorr.fit()
Cancorr_fit ==
    /\ ~cancorr.isNone
    /\ \E o \in {CancorrFit(cancorr)} :
           /\ cancorr' = o.self
           /\ c_ret' = o.ret
    /\ c_call' = CCall("fit", << >>)
    /\ UNCHANGED <<mvars, fvars>>

\* a Cancorr is constructed on two blocks and fitted
NextCancorr ==
    \/ \E pq \in RankInputs, dv \in 0..MaxDf :
          \E s \in SingularInputs(Min(pq[1], pq[2])) :
              Cancorr_new(pq[1] + pq[2] + 1 + dv, pq[1], pq[2], s)
    \/ Cancorr_fit

SpecCancorr == InitFactor /\ [][NextCancorr]_vars

\* a call multivariate_stats(eigenvals, p, q, df_resid)
Call_multivariate_stats(eigenvals, p, q, v, py) ==
    /\ c_ret' = multivariate_stats(eigenvals, p, q, v, py)
    /\ c_call' = CCall("multivariate_stats", <<eigenvals, p, q, v, py>>)
    /\ UNCHANGED <<cancorr, mvars, fvars>>

\* multivariate_stats is called on eigenvalues, ranks and residual df
NextStats ==
    \E e \in EigenvalInputs, pq \in RankInputs, v \in 0..MaxDf, py \in BOOLEAN :
        Call_multivariate_stats(e, pq[1], pq[2], v, py)

SpecStats == InitFactor /\ [][NextStats]_vars

\* a Factor is constructed and fitted
NextFit ==
    \/ \E e \in EndogFitInputs, n \in 0..3, m \in {"pa", "ml"} : Factor_new(e, n, m)
    \/ \E n \in 0..MaxIter, t \in ToleranceInputs, b \in BOOLEAN : Factor_fit(n, t, b)

SpecFit == InitFactor /\ [][NextFit]_vars

\* a Factor on three columns is constructed and fitted
NextFactor3 ==
    \/ \E e \in Endog3Inputs, n \in 0..4, m \in {"pa", "ml"} : Factor_new(e, n, m)
    \/ \E n \in 0..MaxIter, t \in ToleranceInputs, b \in BOOLEAN : Factor_fit(n, t, b)

SpecFactor3 == InitFactor /\ [][NextFactor3]_vars

(***************************************************************************)
(* Properties of MANOVA.test                                               *)
(***************************************************************************)
ColumnMsg == "Contrast matrix L should have the same number of columns as exog! %d != %d"

RowMsg == "Transform matrix M should have the same number of rows as the number of columns of endog! %d != %d"

\* the list passed to the last call of test, when one was passed
TestedList == m_call.hypothesis.list

ListCall == m_call.op = "test" /\ ~m_call.hypothesis.isNone

\* L is a matrix with one column per column of exog
ValidL(L) == Len(L.shape) = 2 /\ L.shape[2] = exog.shape[2]

\* M is absent or a matrix with one row per column of endog
ValidM(M) == M.isNone \/ (Len(M.shape) = 2 /\ M.shape[1] = endog.shape[2])

\* the hypothesis is tested without an error
Clean(h) == ValidL(h.L) /\ ValidM(h.M) /\ ~HasZeroRow(h.L)

\* the k-th hypothesis of the list is reached by the loop
Reached(k) == \A j \in 1..(k - 1) : Clean(TestedList[j])

\* C1: a hypothesis whose contrast matrix L is 2-d with a column count
\* different from q (the columns of exog) makes test raise ValueError with
\* the message reporting "<columns of L> != <q>" and nothing is returned; an
\* L with exactly q columns passes the check: when the call stops at that
\* hypothesis it is not with this error.
C1_ContrastColumnMismatch ==
    ListCall =>
        \A k \in 1..Len(TestedList) :
            (Reached(k) /\ Len(TestedList[k].L.shape) = 2) =>
                IF TestedList[k].L.shape[2] # exog.shape[2]
                THEN m_ret = Raise("ValueError",
                                   Str(ColumnMsg, <<TestedList[k].L.shape[2], exog.shape[2]>>))
                ELSE ~Clean(TestedList[k]) => m_ret.msg.fmt # ColumnMsg

\* the second hypothesis of a list has a contrast matrix of the wrong width
C1_Witness ==
    /\ ListCall
    /\ Len(TestedList) = 2
    /\ Clean(TestedList[1])
    /\ Len(TestedList[2].L.shape) = 2
    /\ TestedList[2].L.shape[2] > exog.shape[2]
    /\ m_ret.kind = "raise"
    /\ m_ret.msg.fmt = ColumnMsg

\* C2: a hypothesis whose transform matrix M is 2-d with a row count
\* different from p (the columns of endog) makes test raise ValueError with
\* the message reporting "<rows of M> != <p>", whatever q is; an absent M
\* is replaced by the p by p identity.
C2_TransformRowMismatch ==
    ListCall =>
        \A k \in 1..Len(TestedList) :
            (Reached(k) /\ ValidL(TestedList[k].L)) =>
                LET M == TestedList[k].M
                IN  /\ (~M.isNone /\ Len(M.shape) = 2 /\ M.shape[1] # endog.shape[2])
                          => m_ret = Raise("ValueError",
                                           Str(RowMsg, <<M.shape[1], endog.shape[2]>>))
                    /\ (M.isNone /\ m_ret.kind = "return")
                          => m_ret.value.results[k][2].M = np_eye(endog.shape[2])

\* the j-th unit row of width q: 1 in column j (0-based), 0 elsewhere
UnitRow(j, q) ==
    [isNone |-> FALSE, shape |-> <<1, q>>, data |-> [i \in 1..q |-> IF i = j + 1 THEN 1 ELSE 0]]

\* C3: test() without a hypothesis on a model without design info returns q
\* tables, the i-th labelled 'x<i>' and testing the contrast that is 1 in
\* column i and 0 elsewhere.
C3_ColumnHypotheses ==
    (m_call.op = "test" /\ m_call.hypothesis.isNone /\ design_info.isNone) =>
        /\ m_ret.kind = "return"
        /\ Len(m_ret.value.results) = exog.shape[2]
        /\ \A i \in 0..(exog.shape[2] - 1) :
              /\ m_ret.value.results[i + 1][1] = Str("x%d", <<i>>)
              /\ m_ret.value.results[i + 1][2].L = UnitRow(i, exog.shape[2])

\* the hypotheses the claim C4 speaks of: the list passed, or one per term
\* of the design info
Expected ==
    IF ~m_call.hypothesis.isNone
    THEN [k \in 1..Len(TestedList) |-> [name |-> TestedList[k].name, L |-> TestedList[k].L]]
    ELSE [k \in 1..Len(design_info.term_name_slices) |->
             LET t == design_info.term_name_slices[k]
             IN  [name |-> t.name,
                  L |-> [isNone |-> FALSE, shape |-> <<t.stop - t.start, exog.shape[2]>>,
                         data |-> [i \in 1..((t.stop - t.start) * exog.shape[2]) |->
                                      IF (i - 1) % exog.shape[2]
                                            = t.start + ((i - 1) \div exog.shape[2])
                                      THEN 1 ELSE 0]]]]

\* C4: test returns one (label, table) pair per hypothesis, the k-th pair
\* carrying the label and the table of the k-th hypothesis passed (or of the
\* k-th term of the design info when none is passed); when a hypothesis of
\* the list fails validation the call raises and returns no collection.
C4_OnePairPerHypothesis ==
    (m_call.op = "test" /\ ~(m_call.hypothesis.isNone /\ design_info.isNone)) =>
        /\ m_ret.kind = "return" =>
              /\ Len(m_ret.value.results) = Len(Expected)
              /\ \A k \in 1..Len(Expected) :
                    /\ m_ret.value.results[k][1] = Expected[k].name
                    /\ m_ret.value.results[k][2].L = Expected[k].L
        /\ (ListCall /\ \E k \in 1..Len(TestedList) :
                            ~(ValidL(TestedList[k].L) /\ ValidM(TestedList[k].M)))
              => (m_ret.kind = "raise" /\ m_ret.value = << >>)

\* two hypotheses with different labels were tested and both tables returned
C4_Witness ==
    /\ ListCall
    /\ Len(TestedList) = 2
    /\ m_ret.kind = "return"
    /\ Len(m_ret.value.results) = 2
    /\ m_ret.value.results[1][1] # m_ret.value.results[2][1]

\* C5: the fitted artifacts are those computed from (exog, endog) at
\* construction in every state, whatever calls of test were made, and every
\* table returned equals the table of the same hypothesis on a fresh fit.
C5_FitArtifactsFrozen ==
    LET fresh == fit_manova(exog, endog).value
    IN  /\ reg_coeffs = fresh.params
        /\ inv_cov_ = fresh.inv_cov
        /\ sscpr = fresh.sscpr
        /\ df_resid = exog.shape[1] - exog.shape[2]
        /\ (ListCall /\ m_ret.kind = "return") =>
              \A k \in 1..Len(TestedList) :
                 m_ret.value.results[k][2]
                    = test_manova(fresh, TestedList[k].L, TestedList[k].M).value

\* a hypothesis is tested successfully right after a call of test that raised
C5_Witness ==
    /\ ListCall
    /\ m_call.prev = "raise"
    /\ m_ret.kind = "return"
    /\ Len(m_ret.value.results) >= 1

(***************************************************************************)
(* Properties of FactorResults.rotate and Factor.fit                       *)
(***************************************************************************)
\* the routine invocation the claims name for an accepted method
RoutineOf(m) ==
    IF m = "promax" THEN Routine("promax", "")
    ELSE IF m = "oblimin" THEN Routine("rotate_factors", "quartimin")
    ELSE Routine("rotate_factors", m)

\* C6: after a successful rotate the current loadings are the fit's loadings
\* with only the last method's routine applied, the pre-rotation loadings
\* are the loadings of the fit, and in no state do the current loadings
\* carry more than one rotation.
C6_RotationReplaces ==
    ~results.isNone =>
        /\ results.loadings_no_rot = factor.loadings
        /\ results.loadings_no_rot.rot = << >>
        /\ Len(results.loadings.rot) <= 1
        /\ [results.loadings EXCEPT !.rot = << >>] = factor.loadings
        /\ (f_call.op = "rotate" /\ f_ret.kind = "return")
              => results.loadings.rot = <<RoutineOf(f_call.args[1])>>

\* oblimin is applied to results whose loadings were varimax-rotated
C6_Witness ==
    /\ f_call.op = "rotate"
    /\ f_ret.kind = "return"
    /\ f_call.args[1] = "oblimin"
    /\ f_call.prev_method = S("varimax")
    /\ results.loadings.rot = <<Routine("rotate_factors", "quartimin")>>
    /\ results.loadings.shape[2] >= 1

\* C7: rotate with a name outside the nine supported ones raises ValueError
\* naming the string and invokes no rotation routine; each of the nine
\* names is accepted.
C7_UnknownMethodRejected ==
    f_call.op = "rotate" =>
        LET m == f_call.args[1]
        IN  IF m \notin {"varimax", "quartimax", "biquartimax", "equamax", "oblimin",
                         "parsimax", "parsimony", "biquartimin", "promax"}
            THEN /\ f_ret = Raise("ValueError", Str("Unknown rotation method %s", <<m>>))
                 /\ f_call.invoked = << >>
            ELSE /\ f_ret.kind = "return"
                 /\ Len(f_call.invoked) = 1

\* rotate was called with the internal routine name quartimin and raised
C7_Witness ==
    /\ f_call.op = "rotate"
    /\ f_call.args[1] = "quartimin"
    /\ f_ret.kind = "raise"

\* the rank of the correlation matrix of the Factor's data
RankOf(e) == IF e.k = 1 THEN 1 ELSE IF e.corr = Q1 \/ e.corr = Q(-1, 1) THEN 1 ELSE 2

ControlMsgs ==
    {"n_factor must be smaller or equal to the rank of endog! %d > %d",
     "n_max_iter must be larger than 0! %d < 0",
     "tolerance must be larger than 0 and smaller than 0.01! Got %f instead"}

\* the last call was a principal-axis fit
FitCall == f_call.op = "fit" /\ factor.method = "pa"

\* the controls of a fit call are the ones the claims call valid
ValidControls(f, args) ==
    /\ 1 <= f.n_factor /\ f.n_factor <= RankOf(f.endog)
    /\ args[1] >= 1
    /\ QLt(Q0, args[2]) /\ QLe(args[2], Q(1, 100))

\* C8: the constructor rejects n_factor <= 0 and n_factor > k with
\* ValueError and constructs nothing; a principal-axis fit with n_factor
\* above the rank, n_max_iter <= 0 or tolerance outside (0, 0.01] raises
\* ValueError before any iteration and leaves loadings and results as they
\* were; valid controls never raise one of these errors.
C8_ControlsValidated ==
    [][/\ f_call'.op = "__init__" =>
            IF f_call'.args[2] <= 0 \/ f_call'.args[2] > f_call'.args[1].k
            THEN f_ret'.kind = "raise" /\ f_ret'.exc = "ValueError" /\ factor'.isNone
            ELSE f_ret'.kind = "return" /\ ~factor'.isNone /\ factor'.loadings.isNone
       /\ (f_call'.op = "fit" /\ factor.method = "pa") =>
            IF ~ValidControls(factor, f_call'.args)
            THEN /\ f_ret'.kind = "raise" /\ f_ret'.exc = "ValueError"
                 /\ f_ret'.msg.fmt \in ControlMsgs
                 /\ f_call'.n_iter = 0
                 /\ factor'.loadings = factor.loadings
                 /\ results' = results
            ELSE ~(f_ret'.kind = "raise" /\ f_ret'.msg.fmt \in ControlMsgs)
      ]_vars

\* a fit with tolerance above 0.01 was rejected on a Factor of full rank
C8_Witness ==
    /\ FitCall
    /\ f_call.args[1] >= 1
    /\ factor.n_factor <= RankOf(factor.endog)
    /\ QLt(Q(1, 100), f_call.args[2])
    /\ f_ret.kind = "raise"
    /\ f_ret.exc = "ValueError"

\* C9: a principal-axis fit with SMC = False and valid controls completes:
\* it performs at least one iteration and returns loadings, eigenvalues and
\* communalities, whatever the number of variables.
C9_FitWithoutSMC ==
    (FitCall /\ f_call.args[3] = FALSE /\ ValidControls(factor, f_call.args)) =>
        /\ f_ret.kind = "return"
        /\ f_call.n_iter >= 1
        /\ ~f_ret.value.loadings.isNone
        /\ ~f_ret.value.eigenvals.isNone
        /\ ~f_ret.value.communality.isNone

\* the number of strictly positive values of an array of eigenvalues
NPos(ev) == Cardinality({i \in 1..Len(ev.data) : ev.data[i].n > 0})

FitReturned == f_call.op = "fit" /\ f_ret.kind = "return"

\* C11: after a fit that returns, every communality lies in [0, 1] and the
\* eigenvalues, one per variable, are in descending order.
C11_CommunalityRange ==
    FitReturned =>
        /\ \A j \in 1..Len(factor.communality.data) :
               /\ QLe(Q0, factor.communality.data[j])
               /\ QLe(factor.communality.data[j], Q1)
        /\ Len(factor.eigenvals.data) = factor.endog.k
        /\ \A i \in 1..(Len(factor.eigenvals.data) - 1) :
               QLe(factor.eigenvals.data[i + 1], factor.eigenvals.data[i])

\* the last call was Cancorr.fit
CancorrFitCall == c_call.op = "fit"

\* C12: after Cancorr.fit every canonical correlation lies in [0, 1], is
\* the raw singular value s brought into [0, 1] (0 below 0, 1 above 1), and
\* the sequence is in descending order.
C12_CancorrClipped ==
    CancorrFitCall =>
        /\ Len(cancorr.cancorr.data) = Len(cancorr.s)
        /\ \A i \in 1..Len(cancorr.s) :
               /\ QLe(Q0, cancorr.cancorr.data[i]) /\ QLe(cancorr.cancorr.data[i], Q1)
               /\ cancorr.cancorr.data[i] =
                      (IF QLt(cancorr.s[i], Q0) THEN Q0
                       ELSE IF QLt(Q1, cancorr.s[i]) THEN Q1 ELSE cancorr.s[i])
        /\ \A i \in 1..(Len(cancorr.s) - 1) :
               QLe(cancorr.cancorr.data[i + 1], cancorr.cancorr.data[i])

\* a fit on raw singular values above 1 and below 0
C12_Witness ==
    /\ CancorrFitCall
    /\ \E i, j \in 1..Len(cancorr.s) : QLt(Q1, cancorr.s[i]) /\ QLt(cancorr.s[j], Q0)
    /\ ~cancorr.cancorr.isNone

\* the communality of two columns of correlation r after i passes: r * r
\* at first, then the mean of the last communality and |r|
RECURSIVE PassCommunality(_, _)
PassCommunality(r, i) ==
    IF i = 0 THEN QMul(r, r)
    ELSE QMul(QAdd(PassCommunality(r, i - 1), QAbs(r)), Q(1, 2))

\* the Euclidean norm of the change of the communality in pass i is
\* strictly below tolerance
PassConverged(r, i, tolerance) ==
    QLt(QMul(Q(2, 1), QMul(QSub(PassCommunality(r, i), PassCommunality(r, i - 1)),
                          QSub(PassCommunality(r, i), PassCommunality(r, i - 1)))),
        QMul(tolerance, tolerance))

\* the pass after which the loop stops
StopPass(r, n_max_iter, tolerance) ==
    IF \E i \in 1..n_max_iter : PassConverged(r, i, tolerance)
    THEN CHOOSE i \in 1..n_max_iter :
            /\ PassConverged(r, i, tolerance)
            /\ \A j \in 1..(i - 1) : ~PassConverged(r, j, tolerance)
    ELSE n_max_iter

TailProduct(cc, i) ==
    QProd([j \in 1..(Len(cc) - i) |-> QSub(Q1, QMul(cc[i + j], cc[i + j]))])

\* C14: after Cancorr.fit the per-pair table has one row per canonical
\* pair, in ascending pair index; row i holds Wilks' lambda = the product
\* over j >= i of 1 - cancorr[j]^2 and Num DF = (p - i)(q - i); the values
\* lie in [0, 1] and do not decrease with i; and row 0 has the Wilks'
\* lambda, Num DF and Den DF of the Wilks row of
\* multivariate_stats(eigenvalues, p, q, nobs - q - 1).
C14_PairTable ==
    CancorrFitCall =>
        /\ Len(cancorr.stats) = Len(cancorr.cancorr.data)
        /\ \A i \in 0..(Len(cancorr.stats) - 1) :
               /\ cancorr.stats[i + 1].index = i
               /\ cancorr.stats[i + 1].Value = TailProduct(cancorr.cancorr.data, i)
               /\ cancorr.stats[i + 1].Num_DF = QI((cancorr.p - i) * (cancorr.q - i))
               /\ QLe(Q0, cancorr.stats[i + 1].Value)
               /\ QLe(cancorr.stats[i + 1].Value, Q1)
        /\ \A i \in 1..(Len(cancorr.stats) - 1) :
               QLe(cancorr.stats[i].Value, cancorr.stats[i + 1].Value)
        /\ cancorr.stats[1].Num_DF = QI(cancorr.p * cancorr.q)
        /\ cancorr.stats[1].Den_DF =
              WilksDenDF(cancorr.p, cancorr.q, cancorr.nobs - cancorr.q - 1)
        /\ c_ret.kind = "return" =>
               /\ cancorr.stats[1].Value = cancorr.multi_stats.wilks.Value
               /\ cancorr.stats[1].Num_DF = cancorr.multi_stats.wilks.Num_DF
               /\ cancorr.stats[1].Den_DF = cancorr.multi_stats.wilks.Den_DF

\* a fit returned a table of several rows with increasing Wilks' lambda
C14_Witness ==
    /\ CancorrFitCall
    /\ c_ret.kind = "return"
    /\ Len(cancorr.stats) >= 2
    /\ QLt(cancorr.stats[1].Value, cancorr.stats[2].Value)
    /\ cancorr.p # cancorr.q

\* the last call was multivariate_stats and it returned a table
StatsReturned == c_call.op = "multivariate_stats" /\ c_ret.kind = "return"

\* C15: in a table multivariate_stats returns for ranks p, q and residual
\* df v, Num DF is p*q for Wilks' lambda, Pillai's trace and the
\* Hotelling-Lawley trace; Pillai's Den DF is s(v - p + s) with
\* s = min(p, q); Roy's greatest root has Num DF max(p, q) and Den DF
\* v - max(p, q) + q.
C15_DegreesOfFreedom ==
    StatsReturned =>
        /\ c_ret.value.wilks.Num_DF = QI(c_call.args[2] * c_call.args[3])
        /\ c_ret.value.pillai.Num_DF = QI(c_call.args[2] * c_call.args[3])
        /\ c_ret.value.hotelling.Num_DF = QI(c_call.args[2] * c_call.args[3])
        /\ c_ret.value.pillai.Den_DF =
              QI(Min(c_call.args[2], c_call.args[3])
                 * (c_call.args[4] - c_call.args[2] + Min(c_call.args[2], c_call.args[3])))
        /\ c_ret.value.roy.Num_DF =
              QI(IF c_call.args[2] > c_call.args[3] THEN c_call.args[2] ELSE c_call.args[3])
        /\ c_ret.value.roy.Den_DF =
              QI(c_call.args[4]
                 - (IF c_call.args[2] > c_call.args[3] THEN c_call.args[2] ELSE c_call.args[3])
                 + c_call.args[3])

\* the table for p = 3, q = 2, v = 10: Num DF 6, 6, 6 and 3, Pillai's
\* Den DF 18 and Roy's 9
C15_Witness ==
    /\ StatsReturned
    /\ c_call.args[2] = 3 /\ c_call.args[3] = 2 /\ c_call.args[4] = 10
    /\ c_ret.value.wilks.Num_DF = QI(6)
    /\ c_ret.value.pillai.Num_DF = QI(6)
    /\ c_ret.value.hotelling.Num_DF = QI(6)
    /\ c_ret.value.roy.Num_DF = QI(3)
    /\ c_ret.value.pillai.Den_DF = QI(18)
    /\ c_ret.value.roy.Den_DF = QI(9)

\* n = (v - p - 1) / 2 of the last call of multivariate_stats
CallN == Q(c_call.args[4] - c_call.args[2] - 1, 2)

\* b = (p + 2n)(q + 2n) / (2 (2n + 1)(n - 1)) of the last call, for n # 1
CallB ==
    QDiv(QMul(QAdd(QI(c_call.args[2]), QAdd(CallN, CallN)),
              QAdd(QI(c_call.args[3]), QAdd(CallN, CallN))),
         QMul(Q(2, 1), QMul(QAdd(QAdd(CallN, CallN), Q1), QSub(CallN, Q1))))

\* C16: a call of multivariate_stats with n = (v - p - 1) / 2 > 0 returns
\* a Hotelling-Lawley row computed in the exact form: the divisors 2n + 1,
\* n - 1, b - 1 and c are not zero, Den DF = 4 + (pq + 2) / (b - 1) is
\* finite and positive and F is finite when the trace is; with n <= 0 the
\* row has the approximate form, Den DF = s (s n + 1).
C16_HotellingWellDefined ==
    c_call.op = "multivariate_stats" =>
        IF QLt(Q0, CallN)
        THEN /\ CallN # Q1
             /\ CallB # Q1
             /\ c_ret.kind = "return"
             /\ IsFinite(c_ret.value.hotelling.Den_DF)
             /\ c_ret.value.hotelling.Den_DF =
                   QAdd(QI(4), QDiv(QI(c_call.args[2] * c_call.args[3] + 2), QSub(CallB, Q1)))
             /\ QLt(Q0, c_ret.value.hotelling.Den_DF)
             /\ c_ret.value.hotelling.Den_DF # QI(2)
             /\ IsFinite(c_ret.value.hotelling.Value) =>
                    IsFinite(c_ret.value.hotelling.F_Value)
        ELSE /\ c_ret.kind = "return"
             /\ c_ret.value.hotelling.Den_DF =
                   QMul(QI(Min(c_call.args[2], c_call.args[3])),
                        QAdd(QMul(QI(Min(c_call.args[2], c_call.args[3])), CallN), Q1))

\* C17: in every state of a FactorResults object rotation_method is None
\* or one of the nine supported names; it is None exactly when the current
\* loadings are the unrotated ones, and else the current loadings are the
\* output of that method's routine; a rotate call that raised left
\* rotation_method as it was; and plot_loadings titles only rotated
\* loadings as rotated.
C17_RotationMethodState ==
    ~results.isNone =>
        /\ results.rotation_method.isNone \/ results.rotation_method.s \in RotationMethods
        /\ IF results.rotation_method.isNone
           THEN results.loadings = results.loadings_no_rot
           ELSE results.loadings.rot = <<RoutineOf(results.rotation_method.s)>>
        /\ (f_call.op = "rotate" /\ f_ret.kind = "raise") =>
               results.rotation_method = f_call.prev_method
        /\ plot_loadings(results, FALSE).title.fmt = "%s Rotated Factor Pattern" =>
               plot_loadings(results, FALSE).loadings.rot # << >>

============================================================================
